---- MODULE Spec2Model ----
(***************************************************************************)
(* Model of the Surfe API toolkit: the HTTP transport of SurfeApiClient    *)
(* (_post / _get over a requests session mounted with a urllib3 Retry),    *)
(* the enrichment job poller (get_enrichment_results), the paginated       *)
(* company search page, the helpers of helpers.py (domain and URL          *)
(* normalization, extract_company_data), the enrichment page (payload,     *)
(* merge, bulk / single-domain / inspector runs) and validate_api_key.     *)
(*                                                                         *)
(* Time is counted in whole seconds.  Python's None is the record NoneVal; *)
(* a JSON body is a record with kind "json".                               *)
(***************************************************************************)
EXTENDS Integers, Sequences, FiniteSets, TLC

VARIABLES
    \* ---- transport: one call of _post / _get
    tpc,            \* "idle" | "request" (an HTTP attempt is due) | "ret" (returned)
    tmethod,        \* "GET" | "POST"
    attempts,       \* HTTP attempts sent on the wire for the current call
    retries,        \* retries the adapter's Retry object has used in this session.request
    depth,          \* recursion depth of _post/_get (the 429 branch calls itself)
    tret,           \* value returned by _post/_get
    clock,          \* time.time()
    last429,        \* the 429 response a retry is pending for, or NoPending
    retryGap,       \* at the latest retry after a 429: seconds between response and resend
    retryNeed,      \* ... and the seconds its Retry-After asked for (60 if absent)
    ttimeout,       \* the timeout argument of the call
    texc,           \* the exception raised inside the try block ("" when none)
    \* ---- poller: one call of get_enrichment_results
    pc,             \* "idle" | "loop" | "get" | "wait" | "done"
    processing_status, \* st.session_state['processing_status']
    last_job_id,    \* st.session_state['last_job_id']
    job_id, max_wait, start_time, poll_count, elapsed, status, waited,
    ret,            \* value returned by get_enrichment_results
    outcome,        \* which return statement ended the call
    termAt, termKind,       \* remote job: index of the first poll answered terminally (0: never), and how
    signalPhase,    \* where the poller was when cancellation was signalled
    pollsAtSignal, httpTime,
    \* ---- company search page (session state)
    search_results, next_page_token, total_results_loaded, current_search_criteria,
    selected_employee_sizes,
    searchNo,       \* number of the latest submitted search
    fetchOutcome,   \* what the latest search_companies call returned: "ok" | "empty" | "failed"
    fetchedAt,      \* total_results_loaded when the latest Load More fetch was issued (-1: none)
    pageLen,        \* number of companies in the latest fetched page
    message,        \* the message the latest handler showed
    tokenBefore,    \* next_page_token when the latest Load More fetch was issued
    search_criteria,    \* the argument of the latest search_companies call
    \* ---- helpers.py: one function applied to one argument
    arg,            \* the argument
    fn,             \* the function applied ("none" before the call)
    once,           \* fn(arg)
    twice,          \* fn(fn(arg))
    \* ---- helpers.py: one call of extract_company_data
    enrichment_result,          \* the 'companies' list of the vendor's answer
    selected_data_points_keys,  \* the logical keys asked for
    results_map,                \* what the call returned (NoneVal before the call)
    \* ---- enrichment page: upload, payload, job result, merge
    mpc,                \* "idle" | "uploaded" | "submitted" | "completed" | "merged" | "stopped"
    df,                 \* the uploaded table: a sequence of rows (column name -> value)
    df0,                \* the table as it was uploaded
    selected_keys,      \* keys of the selected data points
    companies_payload,  \* the submitted payload
    job_results,        \* results: the 'companies' list of the job's result
    \* ---- api_client.py: one call of validate_api_key
    vpc,                \* "idle" | "called" (check_credits is running) | "returned"
    credits,            \* result: what check_credits returned
    credits_exc,        \* the exception _get handled during check_credits ("" when none)
    is_valid,           \* what validate_api_key returned
    \* ---- enrichment page: one run of "Start Enrichment" or "Fetch Raw Data"
    rpc,                \* "idle" | "submit" | "loop" | "poll" | "ended"
    run_entry,          \* "bulk" | "single" | "inspect" ("none" before the first run)
    max_retries,        \* the value of the "Max retries per domain" selectbox
    idx,                \* position in companies_payload of the single-domain loop (from 1)
    successful_domains, failed_domains,
    enrich_job,         \* what the latest start_company_enrichment call returned
    start_calls,        \* the payloads passed to start_company_enrichment in this run
    poll_calls,         \* calls of get_enrichment_results made in this run
    counted,            \* per item counted so far: its position and "ok" or "failed"
    reports             \* the messages with which the run ended

tvars == <<tpc, tmethod, attempts, retries, depth, tret, clock, last429, retryGap, retryNeed,
           ttimeout, texc>>
pvars == <<pc, processing_status, last_job_id, job_id, max_wait, start_time, poll_count,
           elapsed, status, waited, ret, outcome, termAt, termKind,
           signalPhase, pollsAtSignal, httpTime>>
svars == <<search_results, next_page_token, total_results_loaded, current_search_criteria,
           selected_employee_sizes, searchNo, fetchOutcome, fetchedAt, pageLen,
           message, tokenBefore, search_criteria>>
fvars == <<arg, fn, once, twice>>
evars == <<enrichment_result, selected_data_points_keys, results_map>>
mvars == <<mpc, df, df0, selected_keys, companies_payload, job_results>>
kvars == <<vpc, credits, credits_exc, is_valid>>
rvars == <<rpc, run_entry, max_retries, idx, successful_domains, failed_domains, enrich_job,
           start_calls, poll_calls, counted, reports>>
ovars == <<kvars, rvars>>
xvars == <<fvars, evars, mvars, ovars>>
vars == <<tvars, pvars, svars, xvars>>

NoneVal == [kind |-> "None"]
Json(s, j) == [kind |-> "json", status |-> s, job |-> j]
Raised(exc) == [kind |-> "raised", exc |-> exc]

(***************************************************************************)
(* Bounds of the model.                                                    *)
(***************************************************************************)
MaxDepth == 3       \* recursive _post/_get calls explored (the code has no limit)
Latency == 2        \* seconds a slow HTTP answer takes (a fast one takes 0)
RetryAfterSecs == 5 \* the value of a well-formed Retry-After header

(***************************************************************************)
(* HTTP transport: SurfeApiClient.__init__, _post, _get.                   *)
(***************************************************************************)
RetryTotal == 3
BackoffFactor == 1
StatusForcelist == {429, 500, 502, 503, 504}
\* urllib3 defaults the Retry(...) call leaves in force: only idempotent methods
\* are retried on a status or a read error, and Retry-After is respected.
RetryableMethods == {"GET"}
RetryAfterStatusCodes == {413, 429, 503}
DefaultRetryAfter == 60
RequestTimeout == 30
EnrichTimeout == 60

NoHeader == [h |-> "absent"]
BadHeader == [h |-> "malformed"]
SecsHeader(n) == [h |-> "secs", secs |-> n]
RetryAfterHeaders == {NoHeader, BadHeader, SecsHeader(RetryAfterSecs)}
StatusCodes == {200, 401, 403, 404, 429, 500, 503}
NotJson == [kind |-> "notjson"]
NoPending == [at |-> -1, need |-> 0]

\* Retry.get_backoff_time: nothing before the first retry, then factor * 2^(n-1)
Backoff(n) == IF n <= 1 THEN 0 ELSE BackoffFactor * (2 ^ (n - 1))

\* Retry.is_retry
IsRetry(method, code, hdr) ==
    /\ method \in RetryableMethods
    /\ \/ code \in StatusForcelist
       \/ (hdr # NoHeader /\ code \in RetryAfterStatusCodes)

\* the wait the 429 branch of _post/_get means to honour
RetryAfterOf(hdr) == IF hdr = NoHeader THEN DefaultRetryAfter ELSE hdr.secs

\* the except clauses of _post/_get: every exception class ends in "return None"
ExceptNotCaughtAll(exc) ==
    IF exc \in {"Timeout", "ConnectionError", "HTTPError"} THEN NoneVal ELSE Raised(exc)
ExceptHandler(exc) ==
    CASE exc = "Timeout" -> NoneVal
      [] exc = "ConnectionError" -> NoneVal
      [] exc = "HTTPError" -> NoneVal
      [] OTHER -> NoneVal

\* bookkeeping of one attempt put on the wire
SendAttempt ==
    /\ attempts' = attempts + 1
    /\ IF last429 # NoPending
       THEN retryGap' = clock - last429.at /\ retryNeed' = last429.need
       ELSE UNCHANGED <<retryGap, retryNeed>>

\* an exception raised inside the try block reaches the except clauses
Raise(exc, now) ==
    /\ tpc' = "ret"
    /\ tret' = ExceptHandler(exc)
    /\ texc' = exc
    /\ clock' = now
    /\ last429' = NoPending
    /\ UNCHANGED <<retries, depth>>

\* return response.json()
ReturnBody(body, now) ==
    /\ tpc' = "ret"
    /\ tret' = body
    /\ clock' = now
    /\ last429' = NoPending
    /\ UNCHANGED <<retries, depth, texc>>

\* the adapter sleeps and sends again within the same session.request
AdapterRetry(now, sleep, pending) ==
    /\ tpc' = "request"
    /\ retries' = retries + 1
    /\ clock' = now + sleep
    /\ last429' = pending
    /\ UNCHANGED <<depth, tret, texc>>

\* session.post / session.get: the call starts
Call(method, timeout) ==
    /\ tpc = "idle"
    /\ tpc' = "request"
    /\ tmethod' = method
    /\ ttimeout' = timeout
    /\ texc' = ""
    /\ attempts' = 0
    /\ retries' = 0
    /\ depth' = 0
    /\ tret' = NoneVal
    /\ last429' = NoPending
    /\ retryGap' = 0
    /\ retryNeed' = 0

\* sleep before the adapter's retry: Retry.sleep
RetrySleep(hdr) == IF hdr = NoHeader THEN Backoff(retries + 1) ELSE hdr.secs

\* the server answers with a status line
AttemptResponse(code, hdr, body, d) ==
    /\ tpc = "request"
    /\ SendAttempt
    /\ LET now == clock + d IN
       IF IsRetry(tmethod, code, hdr)
       THEN IF retries < RetryTotal
            THEN IF hdr = BadHeader
                 THEN Raise("InvalidHeader", now)
                 ELSE AdapterRetry(now, RetrySleep(hdr),
                                   IF code = 429 THEN [at |-> now, need |-> RetryAfterOf(hdr)]
                                                 ELSE NoPending)
            ELSE Raise("RetryError", now)
       ELSE IF code = 429
            THEN IF hdr = BadHeader
                 THEN Raise("ValueError", now)
                 ELSE /\ depth < MaxDepth
                      /\ tpc' = "request"
                      /\ depth' = depth + 1
                      /\ retries' = 0
                      /\ clock' = now + RetryAfterOf(hdr)
                      /\ last429' = [at |-> now, need |-> RetryAfterOf(hdr)]
                      /\ UNCHANGED <<tret, texc>>
            ELSE IF code >= 400
                 THEN Raise("HTTPError", now)
                 ELSE IF body = NotJson
                      THEN Raise("JSONDecodeError", now)
                      ELSE ReturnBody(body, now)
    /\ UNCHANGED <<tmethod, ttimeout>>

\* no answer within the timeout
AttemptTimeout ==
    /\ tpc = "request"
    /\ SendAttempt
    /\ LET now == clock + ttimeout IN
       IF tmethod \in RetryableMethods
       THEN IF retries < RetryTotal
            THEN AdapterRetry(now, Backoff(retries + 1), NoPending)
            ELSE Raise("ConnectionError", now)
       ELSE Raise("Timeout", now)
    /\ UNCHANGED <<tmethod, ttimeout>>

\* the connection cannot be made
AttemptConnFail ==
    /\ tpc = "request"
    /\ SendAttempt
    /\ IF retries < RetryTotal
       THEN AdapterRetry(clock, Backoff(retries + 1), NoPending)
       ELSE Raise("ConnectionError", clock)
    /\ UNCHANGED <<tmethod, ttimeout>>

(***************************************************************************)
(* Client operations that go straight through the transport.               *)
(***************************************************************************)
ClientOps == {"start_company_enrichment", "search_companies", "check_credits"}
MethodOf(op) == IF op = "check_credits" THEN "GET" ELSE "POST"
TimeoutOf(op) == IF op = "start_company_enrichment" THEN EnrichTimeout ELSE RequestTimeout
TransportBodies == {NotJson, Json("ok", "j1")}

\* start_company_enrichment / search_companies / check_credits
ClientCall(op) ==
    /\ Call(MethodOf(op), TimeoutOf(op))
    /\ clock' = 0

\* the frame of _post/_get is left: its locals are gone
PopFrame ==
    /\ tpc' = "idle"
    /\ attempts' = 0
    /\ retries' = 0
    /\ depth' = 0
    /\ tret' = NoneVal
    /\ last429' = NoPending
    /\ retryGap' = 0
    /\ retryNeed' = 0
    /\ texc' = ""
    /\ UNCHANGED <<tmethod, ttimeout>>

\* the caller takes the returned value
ClientReturn ==
    /\ tpc = "ret"
    /\ PopFrame
    /\ UNCHANGED clock

(***************************************************************************)
(* Company search page: session state, new search, Load More, Clear.       *)
(***************************************************************************)
LoadMoreLimit == 10000
MaxResults == 2000
PerPage == 200
ShortPage == 100    \* bound: length of a page shorter than the requested limit

Tokens == {"t1", "t2"}
Filters == {"f1", "f2"}
SizeChoices == {{}, {"11-50"}}
NoResults == [len |-> 0, searches |-> {}]
\* the criteria dict; nextPageToken is "absent" while the dict has no such key
Criteria(f, l, n) ==
    [kind |-> "criteria", filters |-> f, limit |-> l, search |-> n, nextPageToken |-> "absent"]
\* what search_companies returns: None, or the JSON body with its companies
\* (their number) and its nextPageToken ("None" when the key is absent)
Page(n, t) == [kind |-> "json", companies |-> n, nextPageToken |-> t]
\* a page shorter than the limit is the last one: it carries no token
SearchResponses ==
    {NoneVal} \cup {Page(n, t) : n \in {0, PerPage}, t \in Tokens \cup {"None"}}
              \cup {Page(ShortPage, "None")}

\* results.get('companies') on a result that may be None
Companies(results) == IF results = NoneVal THEN 0 ELSE results.companies
\* list.extend
ExtendLost(list, n, search) == list
Extend(list, n, search) == [len |-> list.len + n, searches |-> list.searches \cup {search}]
NextSearchNo == IF searchNo = 1 THEN 2 ELSE 1

\* "Search Companies" is submitted
SubmitSearch(valid, f, sizes, results) ==
    /\ searchNo' = NextSearchNo
    /\ selected_employee_sizes' = sizes
    /\ fetchedAt' = -1
    /\ tokenBefore' = "None"
    /\ IF ~valid
       THEN /\ message' = "warn_filters"
            /\ search_results' = NoResults
            /\ next_page_token' = "None"
            /\ total_results_loaded' = 0
            /\ fetchOutcome' = "none"
            /\ pageLen' = 0
            /\ UNCHANGED <<current_search_criteria, search_criteria>>
       ELSE /\ current_search_criteria' = Criteria(f, PerPage, searchNo')
            /\ search_criteria' = current_search_criteria'
            /\ IF results = NoneVal
               THEN /\ message' = "error"
                    /\ search_results' = NoResults
                    /\ next_page_token' = "None"
                    /\ total_results_loaded' = 0
                    /\ fetchOutcome' = "failed"
                    /\ pageLen' = 0
               ELSE IF Companies(results) > 0
               THEN /\ message' = "success"
                    /\ search_results' = Extend(NoResults, Companies(results), searchNo')
                    /\ next_page_token' = results.nextPageToken
                    /\ total_results_loaded' = Companies(results)
                    /\ fetchOutcome' = "ok"
                    /\ pageLen' = Companies(results)
               ELSE /\ message' = "info_none_found"
                    /\ search_results' = NoResults
                    /\ next_page_token' = "None"
                    /\ total_results_loaded' = 0
                    /\ fetchOutcome' = "empty"
                    /\ pageLen' = 0

\* the results section is drawn
ResultsShown == search_results.len > 0

\* the condition under which the "Load More Results" button is drawn
LoadMoreGuardAnyToken == total_results_loaded < LoadMoreLimit
LoadMoreGuard == next_page_token # "None" /\ total_results_loaded < LoadMoreLimit

\* the total after a page of n results has been added
TotalAfterReplace(n) == n
TotalAfter(n) == total_results_loaded + n

\* next_page_criteria: the stored criteria with the continuation token added
NextPageCriteria(criteria, token) == [criteria EXCEPT !.nextPageToken = token]
\* the stored dict after next_page_criteria was built from it: without .copy() the
\* key would be added to the stored dict itself
StoredCriteriaAliased(criteria, next_page_criteria) == next_page_criteria
StoredCriteria(criteria, next_page_criteria) == criteria

\* "Load More Results" is clicked
LoadMore(results) ==
    /\ ResultsShown
    /\ LoadMoreGuard
    /\ search_criteria' = NextPageCriteria(current_search_criteria, next_page_token)
    /\ current_search_criteria' = StoredCriteria(current_search_criteria, search_criteria')
    /\ fetchedAt' = total_results_loaded
    /\ tokenBefore' = next_page_token
    /\ IF results # NoneVal /\ Companies(results) > 0
       THEN /\ search_results' = Extend(search_results, Companies(results),
                                        current_search_criteria.search)
            /\ next_page_token' = results.nextPageToken
            /\ total_results_loaded' = TotalAfter(Companies(results))
            /\ message' = "success"
            /\ fetchOutcome' = "ok"
            /\ pageLen' = Companies(results)
       ELSE /\ message' = "info_no_more"
            /\ next_page_token' = "None"
            /\ fetchOutcome' = (IF results = NoneVal THEN "failed" ELSE "empty")
            /\ pageLen' = 0
            /\ UNCHANGED <<search_results, total_results_loaded>>
    /\ UNCHANGED <<selected_employee_sizes, searchNo>>

\* "Clear Results" is clicked
ClearResults ==
    /\ ResultsShown
    /\ search_results' = NoResults
    /\ next_page_token' = "None"
    /\ total_results_loaded' = 0
    /\ current_search_criteria' = NoneVal
    /\ UNCHANGED <<selected_employee_sizes, searchNo, fetchOutcome, fetchedAt, pageLen,
                   message, tokenBefore, search_criteria>>

(***************************************************************************)
(* Job poller: SurfeApiClient.get_enrichment_results.                      *)
(***************************************************************************)
PollInterval == 10
DefaultMaxWait == 300
MaxWait == 22       \* bound: the max_wait the callers pass
MaxTermAt == 3      \* bound: the remote job turns terminal at poll 1..MaxTermAt, or never

MaxWaitChoices == {MaxWait}
EmptyJson == [kind |-> "json", empty |-> TRUE]
ListJson == [kind |-> "json", list |-> TRUE]
NoStatusJson(j) == [kind |-> "json", job |-> j]
NonTerminalStatuses == {"processing", "Pending"}
TermKinds == {"completed", "failed"}

\* str.lower() on the status strings the remote service is modelled to send
Lower(s) ==
    CASE s = "Completed" -> "completed"
      [] s = "Pending" -> "pending"
      [] OTHER -> s

\* "not result": None and the empty JSON object are falsy
Falsy(result) == result = NoneVal \/ result = EmptyJson

\* the bodies the enrichment endpoint can answer the current poll with
PollBodies ==
    IF termAt # 0 /\ poll_count >= termAt
    THEN {Json(termKind, job_id)}
    ELSE {Json(s, job_id) : s \in NonTerminalStatuses} \cup {NoStatusJson(job_id), NotJson, EmptyJson, ListJson}

\* what each return statement of get_enrichment_results hands back
ReturnOf(o, result) == IF o = "completed" THEN result ELSE NoneVal

\* a return statement is executed
Finish(o, result) ==
    /\ pc' = "done"
    /\ outcome' = o
    /\ ret' = ReturnOf(o, result)

\* a page calls client.get_enrichment_results(job_id[, max_wait]); bulk mode
\* first stores the job id and sets processing_status to 'polling'
\* the enrichmentID the submission returned (one id is modelled)
JobId == "j1"

\* st.session_state.last_job_id = job_id, in bulk mode only
SessionJobIdUnset(e, j) == last_job_id
SessionJobId(e, j) == IF e = "bulk" THEN j ELSE last_job_id

GetEnrichmentResults(entry, j, mw, at, kind) ==
    /\ pc \in {"idle", "done"}
    /\ tpc = "idle"
    /\ pc' = "loop"
    /\ job_id' = j
    /\ max_wait' = mw
    /\ processing_status' = IF entry = "bulk" THEN "polling" ELSE processing_status
    /\ last_job_id' = SessionJobId(entry, j)
    /\ clock' = 0
    /\ start_time' = clock'
    /\ poll_count' = 0
    /\ elapsed' = 0
    /\ status' = ""
    /\ waited' = 0
    /\ ret' = NoneVal
    /\ outcome' = "running"
    /\ termAt' = at
    /\ termKind' = kind
    /\ signalPhase' = IF processing_status' = "polling" THEN "none" ELSE "before"
    /\ pollsAtSignal' = 0
    /\ httpTime' = 0
    /\ UNCHANGED <<tpc, tmethod, attempts, retries, depth, tret, last429, retryGap,
                   retryNeed, ttimeout, texc>>

\* while time.time() - start_time < max_wait: ... result = self._get(url, timeout=30)
LoopGuardInclusive == clock - start_time <= max_wait
LoopGuardEarly == clock - start_time + PollInterval < max_wait
LoopGuard == clock - start_time < max_wait

LoopHead ==
    /\ pc = "loop"
    /\ IF LoopGuard
       THEN /\ pc' = "get"
            /\ poll_count' = poll_count + 1
            /\ elapsed' = clock - start_time
            /\ Call("GET", RequestTimeout)
            /\ UNCHANGED <<ret, outcome, clock>>
       ELSE /\ Finish("timeout", NoneVal)
            /\ UNCHANGED <<poll_count, elapsed, tvars>>
    /\ UNCHANGED <<processing_status, last_job_id, job_id, max_wait, start_time, status,
                   waited, termAt, termKind, signalPhase, pollsAtSignal, httpTime>>

\* the status of a truthy dict result: result.get('status', 'processing').lower()
RawStatus(result) == IF "status" \in DOMAIN result THEN result.status ELSE "processing"
StatusOf(result) == Lower(RawStatus(result))

\* _get has returned: the body of the loop up to the wait
AfterGet ==
    /\ pc = "get"
    /\ tpc = "ret"
    /\ PopFrame
    /\ LET result == tret IN
       IF Falsy(result)
       THEN /\ Finish("transport_failure", result)
            /\ UNCHANGED <<status, waited, clock, httpTime>>
       ELSE IF result = ListJson
       THEN /\ Finish("exception", result)
            /\ UNCHANGED <<status, waited, clock, httpTime>>
       ELSE /\ status' = StatusOf(result)
            /\ IF status' = "completed"
               THEN /\ Finish("completed", result)
                    /\ clock' = clock + 1
                    /\ UNCHANGED <<waited, httpTime>>
               ELSE IF status' = "failed"
               THEN /\ Finish("failed", result)
                    /\ UNCHANGED <<waited, clock, httpTime>>
               ELSE /\ pc' = "wait"
                    /\ waited' = 0
                    /\ httpTime' = httpTime + (clock - (start_time + elapsed))
                    /\ UNCHANGED <<ret, outcome, clock>>
    /\ UNCHANGED <<processing_status, last_job_id, job_id, max_wait, start_time, poll_count,
                   elapsed, termAt, termKind, signalPhase,
                   pollsAtSignal>>

\* the check made after each one-second sleep of the wait
CancelNeverObserved == FALSE
CancelObserved == ~(processing_status = "polling")

\* for i in range(10): time.sleep(1); if not ...processing_status == 'polling': return None
WaitTick ==
    /\ pc = "wait"
    /\ clock' = clock + 1
    /\ IF CancelObserved
       THEN /\ Finish("cancelled", NoneVal)
            /\ UNCHANGED waited
       ELSE /\ waited' = waited + 1
            /\ pc' = IF waited' = PollInterval THEN "loop" ELSE "wait"
            /\ UNCHANGED <<ret, outcome>>
    /\ UNCHANGED <<tpc, tmethod, attempts, retries, depth, tret, last429, retryGap,
                   retryNeed, ttimeout, texc>>
    /\ UNCHANGED <<processing_status, last_job_id, job_id, max_wait, start_time, poll_count,
                   elapsed, status, termAt, termKind, signalPhase, pollsAtSignal, httpTime>>

\* "Clear Job State & Reset Page": every session key but the API key is deleted
\* and init_session_state() puts processing_status back to 'idle'.  The session
\* changes only while the polling script is suspended (in a sleep or in an HTTP call).
ClearJobState ==
    /\ pc \in {"idle", "get", "wait", "done"}
    /\ processing_status' = "idle"
    /\ last_job_id' = "None"
    /\ IF processing_status = "polling" /\ pc \in {"get", "wait"}
       THEN /\ signalPhase' = (IF pc = "wait" THEN "wait" ELSE "inflight")
            /\ pollsAtSignal' = poll_count
       ELSE UNCHANGED <<signalPhase, pollsAtSignal>>
    /\ search_results' = NoResults
    /\ next_page_token' = "None"
    /\ current_search_criteria' = NoneVal
    /\ total_results_loaded' = 0
    /\ selected_employee_sizes' = {}
    /\ UNCHANGED <<searchNo, fetchOutcome, fetchedAt, pageLen, message, tokenBefore,
                   search_criteria>>
    /\ UNCHANGED <<pc, job_id, max_wait, start_time, poll_count, elapsed, status, waited, ret,
                   outcome, termAt, termKind, httpTime>>
    /\ UNCHANGED <<tvars, xvars>>

(***************************************************************************)
(* Initial state: a fresh session (init_session_state and the page's       *)
(* "if key not in st.session_state" defaults).                             *)
(***************************************************************************)
TInit ==
    /\ tpc = "idle"
    /\ tmethod = "GET"
    /\ attempts = 0
    /\ retries = 0
    /\ depth = 0
    /\ tret = NoneVal
    /\ clock = 0
    /\ last429 = NoPending
    /\ retryGap = 0
    /\ retryNeed = 0
    /\ ttimeout = RequestTimeout
    /\ texc = ""

PInit ==
    /\ pc = "idle"
    /\ processing_status = "idle"
    /\ last_job_id = "None"
    /\ job_id = "None"
    /\ max_wait = DefaultMaxWait
    /\ start_time = 0
    /\ poll_count = 0
    /\ elapsed = 0
    /\ status = ""
    /\ waited = 0
    /\ ret = NoneVal
    /\ outcome = "none"
    /\ termAt = 0
    /\ termKind = "completed"
    /\ signalPhase = "none"
    /\ pollsAtSignal = 0
    /\ httpTime = 0

SInit ==
    /\ search_results = NoResults
    /\ next_page_token = "None"
    /\ total_results_loaded = 0
    /\ current_search_criteria = NoneVal
    /\ selected_employee_sizes = {}
    /\ searchNo = 0
    /\ fetchOutcome = "none"
    /\ fetchedAt = -1
    /\ pageLen = 0
    /\ message = "none"
    /\ tokenBefore = "None"
    /\ search_criteria = NoneVal

\* no helper has been called
FInit ==
    /\ arg = NoneVal
    /\ fn = "none"
    /\ once = NoneVal
    /\ twice = NoneVal

\* extract_company_data has not been called
EInit ==
    /\ enrichment_result = <<>>
    /\ selected_data_points_keys = {}
    /\ results_map = NoneVal

\* no file has been uploaded
MInit ==
    /\ mpc = "idle"
    /\ df = <<>>
    /\ df0 = <<>>
    /\ selected_keys = {}
    /\ companies_payload = <<>>
    /\ job_results = <<>>

\* validate_api_key has not been called
KInit ==
    /\ vpc = "idle"
    /\ credits = NoneVal
    /\ credits_exc = ""
    /\ is_valid = FALSE

\* no run has been started on the enrichment page
RInit ==
    /\ rpc = "idle"
    /\ run_entry = "none"
    /\ max_retries = 2
    /\ idx = 0
    /\ successful_domains = 0
    /\ failed_domains = 0
    /\ enrich_job = NoneVal
    /\ start_calls = <<>>
    /\ poll_calls = 0
    /\ counted = <<>>
    /\ reports = <<>>

Init == TInit /\ PInit /\ SInit /\ FInit /\ EInit /\ MInit /\ KInit /\ RInit

(***************************************************************************)
(* The transport on its own: client operations called one after another.   *)
(***************************************************************************)
Durations == {0, Latency}

TransportNext ==
    \/ \E op \in ClientOps : ClientCall(op) /\ UNCHANGED <<pvars, svars, xvars>>
    \/ \E code \in StatusCodes, hdr \in RetryAfterHeaders, body \in TransportBodies, d \in Durations :
          /\ (code # 200 => (d = 0 /\ body = NotJson))
          /\ AttemptResponse(code, hdr, body, d) /\ UNCHANGED <<pvars, svars, xvars>>
    \/ AttemptTimeout /\ UNCHANGED <<pvars, svars, xvars>>
    \/ AttemptConnFail /\ UNCHANGED <<pvars, svars, xvars>>
    \/ ClientReturn /\ UNCHANGED <<pvars, svars, xvars>>

TransportSpec == Init /\ [][TransportNext]_vars

(***************************************************************************)
(* The poller with the transport under it.                                 *)
(***************************************************************************)
Entries == {"bulk", "single", "inspect"}
\* the statuses the enrichment endpoint is modelled to answer a poll with
PollCodes == {200, 401, 503}

PollerNext ==
    \/ \E e \in Entries, mw \in MaxWaitChoices, at \in 0..MaxTermAt, k \in TermKinds :
          /\ (at = 0 => k = "completed")
          /\ GetEnrichmentResults(e, JobId, mw, at, k) /\ UNCHANGED <<svars, xvars>>
    \/ LoopHead /\ UNCHANGED <<svars, xvars>>
    \/ \E code \in PollCodes, body \in PollBodies, d \in Durations :
          /\ (code # 200 => (d = 0 /\ body = NotJson))
          /\ AttemptResponse(code, NoHeader, body, d) /\ UNCHANGED <<pvars, svars, xvars>>
    \/ AttemptTimeout /\ UNCHANGED <<pvars, svars, xvars>>
    \/ AttemptConnFail /\ UNCHANGED <<pvars, svars, xvars>>
    \/ AfterGet /\ UNCHANGED <<svars, xvars>>
    \/ WaitTick /\ UNCHANGED <<svars, xvars>>
    \/ ClearJobState

PollerSpec == Init /\ [][PollerNext]_vars

\* the poller's own steps are taken as long as one is possible: the script runs on
PollerStep ==
    \/ LoopHead /\ UNCHANGED <<svars, xvars>>
    \/ \E code \in PollCodes, body \in PollBodies, d \in Durations :
          /\ (code # 200 => (d = 0 /\ body = NotJson))
          /\ AttemptResponse(code, NoHeader, body, d) /\ UNCHANGED <<pvars, svars, xvars>>
    \/ AttemptTimeout /\ UNCHANGED <<pvars, svars, xvars>>
    \/ AttemptConnFail /\ UNCHANGED <<pvars, svars, xvars>>
    \/ AfterGet /\ UNCHANGED <<svars, xvars>>
    \/ WaitTick /\ UNCHANGED <<svars, xvars>>

FairPollerSpec == PollerSpec /\ WF_vars(PollerStep)

(***************************************************************************)
(* Properties of the poller.                                               *)
(***************************************************************************)
FourOutcomes == {"completed", "failed", "timeout", "cancelled"}
\* a poll that could not be read ends the call like a failure
OutcomeClass(o) == IF o \in {"transport_failure", "exception"} THEN "failed" ELSE o
Payload == Json("completed", job_id)
Faulted == outcome \in {"transport_failure", "exception"}
Polling == pc \in {"loop", "get", "wait"}

\* C1: a finished call of get_enrichment_results has exactly one of the four
\* outcomes (payload, failure, timeout, cancellation), and the value it returns is
\* not the value any of the other three outcomes returns.
C1_OutcomesToldApart ==
    pc = "done" =>
        /\ OutcomeClass(outcome) \in FourOutcomes
        /\ outcome \in FourOutcomes =>
              \A o \in FourOutcomes \ {outcome} : ReturnOf(o, Payload) # ret

C4_CooperativeCancel ==
    /\ signalPhase = "wait" =>
          /\ pc \in {"wait", "done"}
          /\ poll_count = pollsAtSignal
          /\ tpc = "idle"
          /\ (pc = "done" => outcome = "cancelled" /\ ret = NoneVal)
    /\ signalPhase = "inflight" =>
          /\ poll_count = pollsAtSignal
          /\ (pc = "done" /\ ~Faulted) =>
                IF termAt # 0 /\ poll_count >= termAt
                THEN outcome = termKind /\ ret = ReturnOf(termKind, Json(termKind, job_id))
                ELSE outcome = "cancelled" /\ ret = NoneVal

C4_Witness ==
    /\ signalPhase = "wait" /\ pc = "done" /\ outcome = "cancelled" /\ poll_count = 2

(***************************************************************************)
(* Properties of the transport.                                            *)
(***************************************************************************)
\* C5: one call of _post/_get sends at most 3 HTTP attempts.
C5_AtMostThreeAttempts == attempts <= 3

\* C6: the attempt that follows a 429 response is not sent before the seconds of
\* its Retry-After header (60 when absent) have passed.
C6_RetryAfterHonoured == retryGap >= retryNeed

SubmitStep ==
    \E valid \in BOOLEAN, f \in Filters, sizes \in SizeChoices, results \in SearchResponses :
        /\ (~valid => (f = "f1" /\ results = NoneVal))
        /\ SubmitSearch(valid, f, sizes, results)
LoadMoreStep == \E results \in SearchResponses : LoadMore(results)

SearchNext ==
    \/ SubmitStep /\ UNCHANGED <<tvars, pvars, xvars>>
    \/ LoadMoreStep /\ UNCHANGED <<tvars, pvars, xvars>>
    \/ ClearResults /\ UNCHANGED <<tvars, pvars, xvars>>
    \/ ClearJobState

SearchSpec == Init /\ [][SearchNext]_vars

\* C8: no page fetch is issued by Load More in a state where
\* total_results_loaded >= 2000, whether or not a continuation token is present.
C8_NoFetchAtCap == fetchedAt < MaxResults

\* C9: a Load More whose search_companies call fails is reported as a failure and
\* keeps the continuation token it was issued with.
C9_FetchFailureSurfaced ==
    (fetchedAt >= 0 /\ fetchOutcome = "failed")
    => (message = "error" /\ next_page_token = tokenBefore)

C11_NoFetchWithoutToken ==
    /\ []( (fetchedAt >= 0 => tokenBefore # "None")
           /\ (fetchOutcome = "empty" => next_page_token = "None") )
    /\ [][ /\ ((searchNo' = searchNo /\ LoadMoreStep) => next_page_token # "None")
           /\ ((next_page_token = "None" /\ next_page_token' # "None") => SubmitStep) ]_vars

C11_Witness ==
    /\ fetchedAt >= 0 /\ tokenBefore # "None"
    /\ fetchOutcome \in {"ok", "empty"} /\ next_page_token = "None"

(***************************************************************************)
(* Strings.  A Python str is the record Str(chars), chars being the        *)
(* sequence of its characters; the str methods the helpers use follow.     *)
(***************************************************************************)
Str(chars) == [kind |-> "str", chars |-> chars]
EmptyStr == Str(<<>>)
Whitespace == {" "}

Take(s, n) == SubSeq(s, 1, n)
Drop(s, n) == SubSeq(s, n + 1, Len(s))
\* str.startswith / str.endswith / the "in" operator on strings
StartsWith(s, p) == Len(p) <= Len(s) /\ Take(s, Len(p)) = p
EndsWith(s, p) == Len(p) <= Len(s) /\ Drop(s, Len(s) - Len(p)) = p
Contains(s, sub) == \E i \in 0..(Len(s) - Len(sub)) : SubSeq(s, i + 1, i + Len(sub)) = sub

\* str.replace(old, new): every occurrence, leftmost first, none overlapping
RECURSIVE Replace(_, _, _)
Replace(s, old, new) ==
    IF Len(s) < Len(old) THEN s
    ELSE IF StartsWith(s, old) THEN new \o Replace(Drop(s, Len(old)), old, new)
    ELSE <<Head(s)>> \o Replace(Tail(s), old, new)

RECURSIVE LStrip(_, _)
LStrip(s, cs) == IF Len(s) > 0 /\ Head(s) \in cs THEN LStrip(Tail(s), cs) ELSE s
\* str.rstrip(chars)
RECURSIVE RStrip(_, _)
RStrip(s, cs) == IF Len(s) > 0 /\ s[Len(s)] \in cs THEN RStrip(Take(s, Len(s) - 1), cs) ELSE s
\* str.strip()
Strip(s) == RStrip(LStrip(s, Whitespace), Whitespace)

\* str.lower() on the letters the inputs are built from
LowerChar(c) == IF c = "A" THEN "a" ELSE IF c = "W" THEN "w" ELSE c
RECURSIVE LowerStr(_)
LowerStr(s) == IF Len(s) = 0 THEN <<>> ELSE <<LowerChar(Head(s))>> \o LowerStr(Tail(s))

\* s.split(c)[0]
RECURSIVE SplitHead(_, _)
SplitHead(s, c) ==
    IF Len(s) = 0 \/ Head(s) = c THEN <<>> ELSE <<Head(s)>> \o SplitHead(Tail(s), c)

HttpsPrefix == <<"h", "t", "t", "p", "s", ":", "/", "/">>
HttpPrefix == <<"h", "t", "t", "p", ":", "/", "/">>
WwwPrefix == <<"w", "w", "w", ".">>
Slash == <<"/">>
Dot == <<".">>
LinkedinCompany == <<"l", "i", "n", "k", "e", "d", "i", "n", ".", "c", "o", "m", "/", "c", "o", "m", "p", "a", "n", "y">>
\* "https://www.linkedin.com/company/"
LinkedinBase == HttpsPrefix \o WwwPrefix \o LinkedinCompany \o Slash

(***************************************************************************)
(* helpers.py: validate_domain, format_linkedin_url; and the cleaning rule *)
(* the enrichment page applies when it builds the payload and when it      *)
(* merges.                                                                 *)
(***************************************************************************)
\* .replace('https://', '').replace('http://', '').replace('www.', '')
RemovePrefixes(s) == Replace(Replace(Replace(s, HttpsPrefix, <<>>), HttpPrefix, <<>>), WwwPrefix, <<>>)

\* validate_domain(domain)
ValidateDomain(domain) ==
    IF domain = NoneVal \/ domain.chars = <<>>
    THEN NoneVal
    ELSE LET domain_str == SplitHead(RemovePrefixes(LowerStr(Strip(domain.chars))), "/")
         IN  IF ~Contains(domain_str, Dot) THEN NoneVal ELSE Str(domain_str)

\* clean_domain = str(domain).strip().replace(...).replace(...).replace(...).rstrip('/')
CleanDomain(domain) == Str(RStrip(RemovePrefixes(Strip(domain.chars)), {"/"}))

\* format_linkedin_url(url)
FormatLinkedinUrl(url) ==
    IF url = NoneVal \/ url.kind # "str" \/ url.chars = <<>>
    THEN EmptyStr
    ELSE LET c0 == Strip(url.chars) IN
         IF Contains(c0, LinkedinCompany)
         THEN LET c1 == SplitHead(c0, "?")
                  c2 == IF EndsWith(c1, Slash) THEN c1 ELSE c1 \o Slash
                  c3 == IF StartsWith(c2, HttpPrefix)
                        THEN Replace(c2, HttpPrefix, HttpsPrefix) ELSE c2
                  c4 == IF StartsWith(c3, HttpsPrefix) THEN c3 ELSE HttpsPrefix \o c3
                  c5 == IF Contains(c4, WwwPrefix)
                        THEN c4 ELSE Replace(c4, HttpsPrefix, HttpsPrefix \o WwwPrefix)
              IN  Str(c5)
         ELSE IF ~Contains(c0, Slash)
         THEN Str(LinkedinBase \o c0 \o Slash)
         ELSE url

(***************************************************************************)
(* The helpers on their own: one function is applied to one argument, and  *)
(* then to its own result.                                                 *)
(***************************************************************************)
MaxLen == 6         \* bound: length of the strings built from DomainChars
MaxSlug == 2        \* bound: length of the slug part of a LinkedIn input
DomainChars == {"w", ".", " ", "/"}
SlugChars == {"a", "?", "/", " "}

RECURSIVE SeqsUpTo(_, _)
SeqsUpTo(S, n) ==
    IF n = 0 THEN {<<>>}
    ELSE LET R == SeqsUpTo(S, n - 1)
         IN  R \cup {Append(r, c) : r \in {x \in R : Len(x) = n - 1}, c \in S}

Schemes == {<<>>, HttpPrefix, HttpsPrefix}
DomainInputs ==
    {Str(s) : s \in SeqsUpTo(DomainChars, MaxLen)}
    \cup {Str(p \o w \o core \o t) :
             p \in Schemes, w \in {<<>>, WwwPrefix},
             core \in {<<"a", ".", "c", "o">>, <<"A", ".", "c", "o">>, <<"a">>},
             t \in {<<>>, Slash, <<"/", "x">>}}
LinkedinInputs ==
    {Str(p \o w \o h \o slug) :
        p \in Schemes, w \in {<<>>, WwwPrefix},
        h \in {<<>>, LinkedinCompany \o Slash, LinkedinCompany},
        slug \in SeqsUpTo(SlugChars, MaxSlug)}
FunctionInputs == {NoneVal} \cup DomainInputs \cup LinkedinInputs

ApplyValidateDomain ==
    /\ fn = "none"
    /\ fn' = "validate_domain"
    /\ once' = ValidateDomain(arg)
    /\ twice' = ValidateDomain(once')
    /\ UNCHANGED arg

ApplyCleanDomain ==
    /\ fn = "none"
    /\ arg # NoneVal
    /\ fn' = "clean_domain"
    /\ once' = CleanDomain(arg)
    /\ twice' = CleanDomain(once')
    /\ UNCHANGED arg

ApplyFormatLinkedinUrl ==
    /\ fn = "none"
    /\ fn' = "format_linkedin_url"
    /\ once' = FormatLinkedinUrl(arg)
    /\ twice' = FormatLinkedinUrl(once')
    /\ UNCHANGED arg

FunctionInit ==
    /\ TInit /\ PInit /\ SInit /\ EInit /\ MInit /\ KInit /\ RInit
    /\ arg \in FunctionInputs
    /\ fn = "none"
    /\ once = NoneVal
    /\ twice = NoneVal

FunctionNext ==
    \/ ApplyValidateDomain /\ UNCHANGED <<tvars, pvars, svars, evars, mvars, ovars>>
    \/ ApplyCleanDomain /\ UNCHANGED <<tvars, pvars, svars, evars, mvars, ovars>>
    \/ ApplyFormatLinkedinUrl /\ UNCHANGED <<tvars, pvars, svars, evars, mvars, ovars>>

FunctionSpec == FunctionInit /\ [][FunctionNext]_vars

\* C17: domain normalization is idempotent, for validate_domain and for the
\* cleaning rule of the enrichment page: normalizing a normalized value gives it back.
C17_NormalizeIdempotent ==
    fn \in {"validate_domain", "clean_domain"} => twice = once

\* C18: format_linkedin_url is idempotent: applied to its own result it returns
\* that result.
C18_LinkedinIdempotent ==
    fn = "format_linkedin_url" => twice = once

(***************************************************************************)
(* helpers.py: the field mapper extract_company_data and what it calls.    *)
(* A vendor value is NoneVal (absent or null), Str(chars), Num(n) or       *)
(* List(items).                                                            *)
(***************************************************************************)
Num(n) == [kind |-> "num", n |-> n]
List(items) == [kind |-> "list", items |-> items]

Digits == <<"0", "1", "2", "3", "4", "5", "6", "7", "8", "9">>
IsDigit(c) == \E d \in 1..10 : Digits[d] = c
DigitVal(c) == (CHOOSE d \in 1..10 : Digits[d] = c) - 1
AllDigits(chars) == Len(chars) > 0 /\ \A i \in 1..Len(chars) : IsDigit(chars[i])
RECURSIVE IntOf(_)
IntOf(chars) ==
    IF Len(chars) = 0 THEN 0
    ELSE 10 * IntOf(Take(chars, Len(chars) - 1)) + DigitVal(chars[Len(chars)])
\* str(n) for n >= 0
RECURSIVE NumToStr(_)
NumToStr(n) == IF n < 10 THEN <<Digits[n + 1]>> ELSE NumToStr(n \div 10) \o <<Digits[(n % 10) + 1]>>

\* truth value of a vendor value
Truthy(v) ==
    CASE v.kind = "None" -> FALSE
      [] v.kind = "str" -> v.chars # <<>>
      [] v.kind = "num" -> v.n # 0
      [] v.kind = "list" -> v.items # <<>>

\* str(item)
StrOf(v) == IF v.kind = "num" THEN NumToStr(v.n) ELSE v.chars
\* ', '.join([str(item) for item in value if item is not None])
RECURSIVE Join(_)
Join(items) ==
    IF Len(items) = 0 THEN <<>>
    ELSE IF Head(items) = NoneVal THEN Join(Tail(items))
    ELSE LET rest == Join(Tail(items))
         IN  IF Len(rest) = 0 THEN StrOf(Head(items)) ELSE StrOf(Head(items)) \o <<",", " ">> \o rest

\* get_default_value(data_type)
GetDefaultValue(data_type) == IF data_type = "numeric" THEN NoneVal ELSE EmptyStr
\* AVAILABLE_DATA_POINTS[...]["data_type"], by key
DataTypeOf(key) == IF key \in {"founded", "employees"} THEN "numeric" ELSE "string"

\* pd.to_numeric(cleaned, errors='coerce'), None when it is NaN
ToNumeric(chars) == IF AllDigits(chars) THEN Num(IntOf(chars)) ELSE NoneVal
\* .replace(',', '').replace('$', '').replace('%', '')
RemoveNumberMarks(chars) == Replace(Replace(Replace(chars, <<",">>, <<>>), <<"$">>, <<>>), <<"%">>, <<>>)

\* safe_convert_for_display(value, target_type)
SafeConvertKeepNone(value, target_type) == value
SafeConvertForDisplay(value, target_type) ==
    IF value = NoneVal THEN (IF target_type = "string" THEN EmptyStr ELSE NoneVal)
    ELSE IF value.kind = "str" /\ Strip(value.chars) = <<>>
    THEN (IF target_type = "string" THEN EmptyStr ELSE NoneVal)
    ELSE IF target_type = "numeric"
    THEN CASE value.kind = "num" -> value
           [] value.kind = "str" -> ToNumeric(RemoveNumberMarks(Strip(value.chars)))
           [] OTHER -> NoneVal
    ELSE CASE value.kind = "list" -> Str(Join(value.items))
           [] value.kind = "num" -> Str(NumToStr(value.n))
           [] OTHER -> LET result == Strip(value.chars)
                       IN  IF result \in {<<"n", "a", "n">>, <<"N", "o", "n", "e">>} THEN EmptyStr ELSE Str(result)

\* the size bucket of an employee count
SizeBucket(count) ==
    IF count <= 10 THEN Str(<<"1", "-", "1", "0">>)
    ELSE IF count <= 50 THEN Str(<<"1", "1", "-", "5", "0">>)
    ELSE IF count <= 200 THEN Str(<<"5", "1", "-", "2", "0", "0">>)
    ELSE IF count <= 1000 THEN Str(<<"2", "0", "1", "-", "1", "0", "0", "0">>)
    ELSE IF count <= 5000 THEN Str(<<"1", "0", "0", "1", "-", "5", "0", "0", "0">>)
    ELSE IF count <= 10000 THEN Str(<<"5", "0", "0", "1", "-", "1", "0", "0", "0", "0">>)
    ELSE Str(<<"1", "0", "0", "0", "0", "+">>)

\* calculate_company_size(employee_count): int() failing gives ''
CalculateCompanySize(employee_count) ==
    CASE employee_count.kind = "num" -> SizeBucket(employee_count.n)
      [] employee_count.kind = "str" /\ AllDigits(Strip(employee_count.chars))
            -> SizeBucket(IntOf(Strip(employee_count.chars)))
      [] OTHER -> EmptyStr

\* a or b
Or(a, b) == IF Truthy(a) THEN a ELSE b

\* the "Specific Key Mapping Logic": the raw value of one logical key
RawValue(company, key) ==
    CASE key = "linkedin" -> Or(company.linkedinURL, company.linkedInURL)
      [] key = "website" ->
            IF company.websites.kind = "list" /\ Truthy(company.websites)
            THEN Head(company.websites.items) ELSE NoneVal
      [] key = "employees" -> company.employeeCount
      [] key = "size" ->
            IF Truthy(company.employeeCount)
            THEN CalculateCompanySize(company.employeeCount) ELSE EmptyStr
      [] OTHER -> company[key]

\* extracted_data[key]
ExtractedValue(company, key) ==
    LET converted == SafeConvertForDisplay(RawValue(company, key), DataTypeOf(key))
    IN  IF key = "linkedin" /\ Truthy(converted) THEN FormatLinkedinUrl(converted)
        ELSE converted

\* extracted_data of one company
ExtractedData(company, keys) == [key \in keys |-> ExtractedValue(company, key)]

RowPrefix == <<"r", "o", "w", "_">>
\* external_id.split('_')[1]
SplitSecond(chars) == SplitHead(Drop(chars, Len(SplitHead(chars, "_")) + 1), "_")

\* what the externalID of a company leads to: "skip" (continue), "raise" (an
\* exception the function does not catch), or "row" with its index
RowOf(company) ==
    LET external_id == company.externalID IN
    IF ~Truthy(external_id) THEN [to |-> "skip"]
    ELSE IF external_id.kind # "str" THEN [to |-> "raise", exc |-> "AttributeError"]
    ELSE IF ~StartsWith(external_id.chars, RowPrefix) THEN [to |-> "skip"]
    ELSE IF ~AllDigits(SplitSecond(external_id.chars)) THEN [to |-> "skip"]
    ELSE [to |-> "row", row_index |-> IntOf(SplitSecond(external_id.chars))]

\* a results_map: the row indices it has, and the extracted data of each
EmptyMap == [kind |-> "map", rows |-> {}, at |-> [i \in {} |-> NoneVal]]
Put(map, i, data) ==
    [kind |-> "map", rows |-> map.rows \cup {i},
     at |-> [j \in map.rows \cup {i} |-> IF j = i THEN data ELSE map.at[j]]]

\* the loop of extract_company_data over the companies not yet visited
RECURSIVE ExtractLoop(_, _, _)
ExtractLoop(companies, keys, map) ==
    IF Len(companies) = 0 THEN map
    ELSE LET company == Head(companies)
             row == RowOf(company)
         IN  CASE row.to = "raise" -> Raised(row.exc)
               [] row.to = "skip" -> ExtractLoop(Tail(companies), keys, map)
               [] OTHER -> ExtractLoop(Tail(companies), keys,
                                       Put(map, row.row_index, ExtractedData(company, keys)))

\* extract_company_data(enrichment_result, selected_data_points_keys)
ExtractCompanyData(companies, keys) == ExtractLoop(companies, keys, EmptyMap)

(***************************************************************************)
(* The field mapper on its own: a vendor answer arrives and is extracted.  *)
(***************************************************************************)
AllKeys == {"name", "website", "linkedin", "founded", "employees", "size"}
KeySets == {AllKeys, {"website", "employees"}}

Site == Str(<<"a", ".", "c", "o">>)
ExternalIds == {NoneVal, Str(<<"r", "o", "w", "_", "0">>), Str(<<"r", "o", "w", "_", "1">>), Str(<<"r", "o", "w", "_", "x">>), Num(5)}
EmployeeCounts == {NoneVal, Num(25), Str(<<"x">>)}
WebsiteValues == {NoneVal, List(<<Site>>), Site}
\* the records a vendor answer is built from: each field absent, well-formed or malformed
VendorRecords ==
    [externalID : ExternalIds, name : {NoneVal, Str(<<"A">>)},
     linkedinURL : {NoneVal, Str(<<"a">>)}, linkedInURL : {NoneVal},
     websites : WebsiteValues, employeeCount : EmployeeCounts,
     founded : {NoneVal, Num(1999)}]
\* a record with every field present and well-formed, for row 1
CompleteRecord ==
    [externalID |-> Str(<<"r", "o", "w", "_", "1">>), name |-> Str(<<"B">>), linkedinURL |-> Str(<<"b">>),
     linkedInURL |-> NoneVal, websites |-> List(<<Site>>), employeeCount |-> Num(40),
     founded |-> Num(2001)]
VendorAnswers ==
    UNION {{<<r>>, <<r, CompleteRecord>>, <<CompleteRecord, r>>} : r \in VendorRecords}

\* the job's result and the selected keys reach the mapper
ReceiveResult(companies, keys) ==
    /\ enrichment_result = <<>>
    /\ enrichment_result' = companies
    /\ selected_data_points_keys' = keys
    /\ UNCHANGED results_map

\* company_data_map = extract_company_data(results, selected_keys)
Extract ==
    /\ enrichment_result # <<>>
    /\ results_map = NoneVal
    /\ results_map' = ExtractCompanyData(enrichment_result, selected_data_points_keys)
    /\ UNCHANGED <<enrichment_result, selected_data_points_keys>>

ExtractNext ==
    \/ \E companies \in VendorAnswers, keys \in KeySets :
          ReceiveResult(companies, keys) /\ UNCHANGED <<tvars, pvars, svars, fvars, mvars, ovars>>
    \/ Extract /\ UNCHANGED <<tvars, pvars, svars, fvars, mvars, ovars>>

ExtractSpec == Init /\ [][ExtractNext]_vars

\* the source field(s) of a logical key are absent from the record
SourceMissing(company, key) ==
    CASE key = "linkedin" -> company.linkedinURL = NoneVal /\ company.linkedInURL = NoneVal
      [] key = "website" -> company.websites = NoneVal
      [] key \in {"employees", "size"} -> company.employeeCount = NoneVal
      [] OTHER -> company[key] = NoneVal
\* record i is the last one of the answer with its row index
LastOfRow(i) ==
    \A j \in (i + 1)..Len(enrichment_result) :
        RowOf(enrichment_result[j]) # RowOf(enrichment_result[i])
IdsAreStrings ==
    \A i \in 1..Len(enrichment_result) :
        enrichment_result[i].externalID.kind \in {"None", "str"}

C20_MalformedIsolated ==
    results_map # NoneVal =>
        \A i \in 1..Len(enrichment_result) :
            LET alone == ExtractCompanyData(<<enrichment_result[i]>>, selected_data_points_keys)
            IN  (alone.kind = "map" /\ alone.rows # {} /\ LastOfRow(i)) =>
                   /\ results_map.kind = "map"
                   /\ \A r \in alone.rows :
                         r \in results_map.rows /\ results_map.at[r] = alone.at[r]

(***************************************************************************)
(* Enrichment page: the payload built from the uploaded table, and the     *)
(* merge of the job's result back into the table.                          *)
(***************************************************************************)
MaxRows == 3        \* bound: rows of the uploaded table

DomainColumn == "domain"
\* the values of the domain column: NoneVal is an empty cell (NaN)
RawDomains ==
    {NoneVal, Str(<<"a", ".", "c", "o">>), Str(<<"h", "t", "t", "p", "s", ":", "/", "/", "w", "w", "w", ".", "a", ".", "c", "o", "/">>), Str(<<"b", ".", "c", "o">>), Str(<<"b", "a", "d">>)}
\* the other columns of the uploaded file, with the value their cells hold
ColumnSets == {{}, {"enriched_name"}}
OriginalCell == Str(<<"o">>)
MergeKeySets == {{"name"}, {"name", "employees"}}

\* a row of the table read from the file
RowOfFile(domain, columns) ==
    [c \in columns \cup {DomainColumn} |-> IF c = DomainColumn THEN domain ELSE OriginalCell]
\* two values of which the first one cleans to the second one, and the second one
\* cleans to something else: 'wwww.ww.a.co' -> 'www.a.co' -> 'a.co'
AliasDomains ==
    {Str(<<"w", "w", "w", "w", ".", "w", "w", ".", "a", ".", "c", "o">>),
     Str(<<"w", "w", "w", ".", "a", ".", "c", "o">>)}
Tables ==
    UNION {{[i \in 1..n |-> RowOfFile(ds[i], columns)] : ds \in [1..n -> RawDomains]}
           : n \in 1..MaxRows, columns \in ColumnSets}
    \cup {[i \in 1..2 |-> RowOfFile(ds[i], {})] : ds \in [1..2 -> AliasDomains]}

\* df[domain_column].dropna().unique(): first occurrences, in order
RECURSIVE Unique(_, _)
Unique(rows, seen) ==
    IF Len(rows) = 0 THEN <<>>
    ELSE LET domain == Head(rows)[DomainColumn]
         IN  IF domain = NoneVal \/ domain \in seen
             THEN Unique(Tail(rows), seen)
             ELSE <<domain>> \o Unique(Tail(rows), seen \cup {domain})
ValidDomains(table) == Unique(table, {})

\* f"row_{i}"
ExternalIdSame(i) == Str(RowPrefix \o <<"0">>)
ExternalId(i) == Str(RowPrefix \o NumToStr(i))

\* if clean_domain and '.' in clean_domain
AnyDomainIsValid(clean_domain) == clean_domain.chars # <<>>
IsValidDomain(clean_domain) == clean_domain.chars # <<>> /\ Contains(clean_domain.chars, Dot)

\* the payload loop, from position i (0-based) of valid_domains on
RECURSIVE PayloadFrom(_, _)
PayloadFrom(valid_domains, i) ==
    IF i >= Len(valid_domains) THEN <<>>
    ELSE LET clean_domain == CleanDomain(valid_domains[i + 1])
         IN  IF IsValidDomain(clean_domain)
             THEN <<[domain |-> clean_domain, externalID |-> ExternalId(i)]>>
                  \o PayloadFrom(valid_domains, i + 1)
             ELSE PayloadFrom(valid_domains, i + 1)

\* the file is uploaded and read
Upload(table) ==
    /\ mpc = "idle"
    /\ mpc' = "uploaded"
    /\ df' = table
    /\ df0' = table
    /\ UNCHANGED <<selected_keys, companies_payload, job_results>>

\* "Start Enrichment" up to the submission of the payload
StartEnrichment(keys) ==
    /\ mpc = "uploaded"
    /\ selected_keys' = keys
    /\ LET valid_domains == ValidDomains(df) IN
       IF Len(valid_domains) = 0
       THEN mpc' = "stopped" /\ UNCHANGED companies_payload
       ELSE /\ companies_payload' = PayloadFrom(valid_domains, 0)
            /\ mpc' = IF Len(companies_payload') = 0 THEN "stopped" ELSE "submitted"
    /\ UNCHANGED <<df, df0, job_results>>

\* the record the vendor returns for a payload item: it carries the item's
\* externalID, and the submitted domain as the company's name and website
ResultFor(item) ==
    [externalID |-> item.externalID, name |-> item.domain, linkedinURL |-> NoneVal,
     linkedInURL |-> NoneVal, websites |-> List(<<item.domain>>),
     employeeCount |-> Num(25), founded |-> NoneVal]

RECURSIVE ResultsFrom(_, _, _)
ResultsFrom(payload, answered, i) ==
    IF i > Len(payload) THEN <<>>
    ELSE IF i \in answered
         THEN <<ResultFor(payload[i])>> \o ResultsFrom(payload, answered, i + 1)
         ELSE ResultsFrom(payload, answered, i + 1)

\* the job completes with results for some of the submitted items
JobCompleted(answered) ==
    /\ mpc = "submitted"
    /\ mpc' = "completed"
    /\ job_results' = ResultsFrom(companies_payload, answered, 1)
    /\ UNCHANGED <<df, df0, selected_keys, companies_payload>>

\* f"enriched_{key}"
EnrichedColumn(key) ==
    CASE key = "name" -> "enriched_name"
      [] key = "employees" -> "enriched_employees"
      [] key = "linkedin" -> "enriched_linkedin"
      [] key = "website" -> "enriched_website"
      [] key = "founded" -> "enriched_founded"
      [] key = "size" -> "enriched_size"
KeyOfColumn(c, keys) == CHOOSE key \in keys : EnrichedColumn(key) = c

\* df[f"enriched_{key}"] = get_default_value(data_type), for every selected key
WithNewColumns(row, keys) ==
    LET new == {EnrichedColumn(key) : key \in keys}
    IN  [c \in DOMAIN row \cup new |->
            IF c \in new THEN GetDefaultValue(DataTypeOf(KeyOfColumn(c, keys))) ELSE row[c]]

\* domain_to_index_map[clean_domain], -1 when clean_domain is not a key of it
IndexIn(valid_domains, clean_domain) ==
    IF \E i \in 1..Len(valid_domains) : valid_domains[i] = clean_domain
    THEN (CHOOSE i \in 1..Len(valid_domains) : valid_domains[i] = clean_domain) - 1
    ELSE -1

\* the value written into one enriched cell
WrittenValue(key, value) == IF key = "linkedin" THEN FormatLinkedinUrl(value) ELSE value

\* one turn of "for index, row in df.iterrows()"
MergedRow(row, valid_domains, company_data_map, keys) ==
    LET base == WithNewColumns(row, keys)
        domain == row[DomainColumn]
    IN  IF domain = NoneVal THEN base
        ELSE LET result_idx == IndexIn(valid_domains, CleanDomain(domain))
             IN  IF result_idx < 0 \/ result_idx \notin company_data_map.rows THEN base
                 ELSE LET data == company_data_map.at[result_idx]
                          written == {EnrichedColumn(key) : key \in DOMAIN data}
                      IN  [c \in DOMAIN base |->
                              IF c \in written
                              THEN WrittenValue(KeyOfColumn(c, DOMAIN data),
                                                data[KeyOfColumn(c, DOMAIN data)])
                              ELSE base[c]]

\* "Continue with results processing": extraction, new columns, merge loop
Merge ==
    /\ mpc = "completed"
    /\ LET company_data_map == ExtractCompanyData(job_results, selected_keys)
           valid_domains == ValidDomains(df)
       IN  IF company_data_map.kind = "raised"
           THEN mpc' = "stopped" /\ UNCHANGED df
           ELSE /\ mpc' = "merged"
                /\ df' = [i \in 1..Len(df) |->
                             MergedRow(df[i], valid_domains, company_data_map, selected_keys)]
    /\ UNCHANGED <<df0, selected_keys, companies_payload, job_results>>

MergeNext ==
    \/ \E table \in Tables : Upload(table) /\ UNCHANGED <<tvars, pvars, svars, fvars, evars, ovars>>
    \/ \E keys \in MergeKeySets :
          StartEnrichment(keys) /\ UNCHANGED <<tvars, pvars, svars, fvars, evars, ovars>>
    \/ \E answered \in SUBSET (1..Len(companies_payload)) :
          JobCompleted(answered) /\ UNCHANGED <<tvars, pvars, svars, fvars, evars, ovars>>
    \/ Merge /\ UNCHANGED <<tvars, pvars, svars, fvars, evars, ovars>>

MergeSpec == Init /\ [][MergeNext]_vars

(***************************************************************************)
(* Properties of the payload and of the merge.                             *)
(***************************************************************************)
Merged == mpc = "merged"
Submitted == mpc \in {"submitted", "completed", "merged"}
\* the lookup value of row i, normalized with the rule used at submission
CleanOfRow(i) == CleanDomain(df0[i][DomainColumn])
\* the job returned a result for the payload item
Answered(item) == \E k \in 1..Len(job_results) : job_results[k].externalID = item.externalID
\* row i has enriched data / has every enriched column at its empty default
Populated(i) == df[i]["enriched_name"] # EmptyStr
AtDefault(i) ==
    \A key \in selected_keys : df[i][EnrichedColumn(key)] = GetDefaultValue(DataTypeOf(key))

\* C12: after the merge, every row whose normalized lookup value was submitted and
\* answered holds, in its enriched columns, the mapped fields of that result.
C12_SubmittedRowsMerged ==
    Merged =>
        \A i \in 1..Len(df0) : df0[i][DomainColumn] # NoneVal =>
            \A k \in 1..Len(companies_payload) :
                LET item == companies_payload[k] IN
                (item.domain = CleanOfRow(i) /\ Answered(item)) =>
                    \A key \in selected_keys :
                        df[i][EnrichedColumn(key)] = ExtractedValue(ResultFor(item), key)

\* C13: after the merge of a result with N distinct correlation IDs of the batch,
\* exactly N rows are populated and the other rows are at the empty defaults.
C13_ExactlyNPopulated ==
    Merged =>
        /\ Cardinality({i \in 1..Len(df) : Populated(i)}) = Len(job_results)
        /\ \A i \in 1..Len(df) : ~Populated(i) => AtDefault(i)

\* the normalized value of row i is left as it is by the normalization
StableClean(i) == CleanDomain(CleanOfRow(i)) = CleanOfRow(i)

C16_MergeAdditive ==
    Merged =>
        /\ Len(df) = Len(df0)
        /\ \A i \in 1..Len(df0) : \A c \in DOMAIN df0[i] : df[i][c] = df0[i][c]

(***************************************************************************)
(* The employee-count filter of the search page.  The multiselect lives     *)
(* inside the search form, so a new selection reaches the session only     *)
(* through the form's submit handler (selected_employee_sizes is assigned  *)
(* nowhere else on the page).                                              *)
(***************************************************************************)
\* the step applies a new filter selection
FilterApplied == selected_employee_sizes' # selected_employee_sizes /\ ~ClearJobState
\* the step calls search_companies
IssuesFetch == (SubmitStep /\ fetchOutcome' # "none") \/ LoadMoreStep

\* C21: a step that applies a different employee-count filter selection leaves
\* search_results, next_page_token and total_results_loaded unchanged and issues
\* no API call.
C21_FilterChangeKeepsResults ==
    [][ FilterApplied
          => /\ UNCHANGED <<search_results, next_page_token, total_results_loaded>>
             /\ ~IssuesFetch ]_vars

\* C22: every Load More fetch sends the stored criteria plus the current
\* continuation token and leaves the stored criteria unchanged; the stored criteria
\* change only by a new search, Clear Results or the session reset, and never
\* carry a nextPageToken key.
C22_CriteriaImmutable ==
    /\ []( /\ (ResultsShown => current_search_criteria # NoneVal)
           /\ (current_search_criteria # NoneVal
                 => current_search_criteria.nextPageToken = "absent") )
    /\ [][ /\ ((searchNo' = searchNo /\ LoadMoreStep)
                 => /\ search_criteria'
                         = NextPageCriteria(current_search_criteria, next_page_token)
                    /\ search_criteria'.nextPageToken # "absent"
                    /\ current_search_criteria' = current_search_criteria)
           /\ (current_search_criteria' # current_search_criteria
                 => (SubmitStep \/ ClearResults \/ ClearJobState)) ]_vars

\* two Load More fetches were sent and the stored criteria are those of the search
C22_Witness ==
    /\ fetchedAt = 2 * PerPage
    /\ search_criteria = NextPageCriteria(current_search_criteria, tokenBefore)
    /\ search_criteria.nextPageToken \in Tokens
    /\ current_search_criteria = Criteria("f2", PerPage, searchNo)

(***************************************************************************)
(* Cancellation and the entry points of the poller.  Only bulk mode sets   *)
(* processing_status to 'polling' before it calls get_enrichment_results;  *)
(* the single-domain loop and the raw-data inspector call it with whatever *)
(* the session holds, which is 'idle' in a fresh or reset session          *)
(* (signalPhase = "before").                                               *)
(***************************************************************************)
\* C27: a call of get_enrichment_results ends as cancelled only if cancellation
\* was signalled after the call began; without a signal it polls on while the
\* status is processing or pending, until a terminal status or the timeout.
C27_CancelledOnlyAfterSignal ==
    /\ (pc = "done" /\ outcome = "cancelled") => signalPhase \in {"wait", "inflight"}
    /\ (pc = "done" /\ signalPhase \notin {"wait", "inflight"} /\ ~Faulted)
          => outcome \in {"completed", "failed", "timeout"}

(***************************************************************************)
(* SurfeApiClient.validate_api_key over check_credits and _get.            *)
(***************************************************************************)
\* return result is not None
ValidResultAlways(result) == TRUE
ValidResult(result) == result # NoneVal

\* validate_api_key is called: result = self.check_credits() starts its GET
ValidateApiKey ==
    /\ vpc \in {"idle", "returned"}
    /\ ClientCall("check_credits")
    /\ vpc' = "called"
    /\ UNCHANGED <<credits, credits_exc, is_valid>>

\* check_credits has returned (or raised): validate_api_key returns
ValidateReturn ==
    /\ vpc = "called"
    /\ tpc = "ret"
    /\ PopFrame
    /\ vpc' = "returned"
    /\ credits' = tret
    /\ credits_exc' = texc
    /\ is_valid' = IF tret.kind = "raised" THEN FALSE ELSE ValidResult(tret)
    /\ UNCHANGED clock

ValidateNext ==
    \/ ValidateApiKey /\ UNCHANGED <<pvars, svars, fvars, evars, mvars, rvars>>
    \/ \E code \in StatusCodes, hdr \in RetryAfterHeaders, body \in TransportBodies, d \in Durations :
          /\ (code # 200 => (d = 0 /\ body = NotJson))
          /\ AttemptResponse(code, hdr, body, d) /\ UNCHANGED <<pvars, svars, xvars>>
    \/ AttemptTimeout /\ UNCHANGED <<pvars, svars, xvars>>
    \/ AttemptConnFail /\ UNCHANGED <<pvars, svars, xvars>>
    \/ ValidateReturn /\ UNCHANGED <<pvars, svars, fvars, evars, mvars, rvars>>

ValidateSpec == Init /\ [][ValidateNext]_vars

\* C25: validate_api_key returns True exactly when check_credits returned a result
\* without an error (the parsed body of a successful answer), False otherwise, and
\* no exception leaves it.
C25_ValidIffCredits ==
    vpc = "returned" =>
        /\ is_valid \in BOOLEAN
        /\ is_valid <=> (credits.kind = "json" /\ credits_exc = "")

\* a key was validated a second time: refused after an HTTP error, then accepted
C25_Witness ==
    /\ vpc = "called" /\ tpc = "ret" /\ tret = Json("ok", "j1") /\ texc = ""
    /\ ~is_valid /\ credits_exc = "HTTPError"

(***************************************************************************)
(* The enrichment page: one run of "Start Enrichment" (bulk or single-     *)
(* domain mode) or of "Fetch Raw Data", with the poller under it.  The     *)
(* answer of start_company_enrichment is an input of the submitting step.  *)
(***************************************************************************)
MaxItems == 2       \* bound: items of the payload of a run

\* options of the "Max retries per domain" selectbox
RetryChoices == {1, 2, 3, 5}

RunDomain(i) == Str(<<"d">> \o NumToStr(i) \o <<".", "c", "o">>)
RawInspect == Str(<<"r", "a", "w", "_", "i", "n", "s", "p", "e", "c", "t">>)
\* companies_payload of a run over n valid domains; the inspector's one-item payload
RunPayload(n) == PayloadFrom([i \in 1..n |-> RunDomain(i)], 0)
InspectPayload == <<[domain |-> RunDomain(1), externalID |-> RawInspect]>>

\* what start_company_enrichment can return: None, {}, a dict without a job id,
\* a dict with 'enrichmentID', a dict with 'id', a JSON list
EnrichIdJson == [kind |-> "json", enrichmentID |-> JobId]
IdJson == [kind |-> "json", id |-> JobId]
NoIdJson == [kind |-> "json", message |-> "error"]
StartResponses == {NoneVal, EmptyJson, NoIdJson, EnrichIdJson, IdJson, ListJson}

\* the value has a .get method: it is a dict
IsDict(r) == r.kind = "json" /\ r # ListJson

\* enrich_job.get('enrichmentID') or enrich_job.get('id')
JobIdAssumed(r) == JobId
JobIdOf(r) ==
    IF "enrichmentID" \in DOMAIN r THEN r.enrichmentID
    ELSE IF "id" \in DOMAIN r THEN r.id ELSE "None"

\* the button is pressed: the script runs up to the first submission
StartRun(e, payload, r) ==
    /\ rpc \in {"idle", "ended"}
    /\ pc \in {"idle", "done"}
    /\ tpc = "idle"
    /\ rpc' = IF e = "single" THEN "loop" ELSE "submit"
    /\ run_entry' = e
    /\ max_retries' = r
    /\ idx' = IF e = "single" THEN 1 ELSE 0
    /\ successful_domains' = 0
    /\ failed_domains' = 0
    /\ enrich_job' = NoneVal
    /\ start_calls' = <<>>
    /\ poll_calls' = 0
    /\ counted' = <<>>
    /\ reports' = <<>>
    /\ companies_payload' = payload
    /\ UNCHANGED <<mpc, df, df0, selected_keys, job_results>>
    /\ UNCHANGED <<tvars, pvars, svars, fvars, evars, kvars>>

\* the run ends with a message
EndRun(msg) ==
    /\ rpc' = "ended"
    /\ reports' = Append(reports, msg)

\* the submission did not lead to a poll
NoPoll(msg) ==
    /\ EndRun(msg)
    /\ UNCHANGED <<poll_calls, tvars, pvars>>

\* client.get_enrichment_results(job_id, ...) is entered
EnterPoller(e, job, mw, at, kind) ==
    /\ rpc' = "poll"
    /\ poll_calls' = poll_calls + 1
    /\ GetEnrichmentResults(e, JobIdOf(job), mw, at, kind)

\* bulk mode: start_company_enrichment(companies_payload) has returned job
BulkSubmit(job, mw, at, kind) ==
    /\ rpc = "submit" /\ run_entry = "bulk"
    /\ enrich_job' = job
    /\ start_calls' = Append(start_calls, companies_payload)
    /\ IF Falsy(job) THEN NoPoll("no_response")
       ELSE IF ~IsDict(job) THEN NoPoll("exception")
       ELSE IF JobIdOf(job) = "None" THEN NoPoll("failed_to_start")
       ELSE EnterPoller("bulk", job, mw, at, kind) /\ UNCHANGED reports
    /\ UNCHANGED <<run_entry, max_retries, idx, successful_domains, failed_domains, counted>>
    /\ UNCHANGED <<svars, fvars, evars, mvars, kvars>>

\* bulk mode: get_enrichment_results has returned; "if results: ... else: ..."
BulkAfterPoll ==
    /\ rpc = "poll" /\ run_entry = "bulk" /\ pc = "done"
    /\ EndRun(IF Falsy(ret) THEN "failed_to_retrieve" ELSE "complete")
    /\ UNCHANGED <<run_entry, max_retries, idx, successful_domains, failed_domains,
                   enrich_job, start_calls, poll_calls, counted>>
    /\ UNCHANGED <<tvars, pvars, svars, fvars, evars, mvars, kvars>>

\* "Fetch Raw Data": start_company_enrichment(payload) has returned job
InspectSubmit(job, mw, at, kind) ==
    /\ rpc = "submit" /\ run_entry = "inspect"
    /\ enrich_job' = job
    /\ start_calls' = Append(start_calls, companies_payload)
    /\ IF ~IsDict(job) THEN NoPoll("exception")
       ELSE IF JobIdOf(job) = "None" THEN NoPoll("failed_to_start")
       ELSE EnterPoller("inspect", job, mw, at, kind) /\ UNCHANGED reports
    /\ UNCHANGED <<run_entry, max_retries, idx, successful_domains, failed_domains, counted>>
    /\ UNCHANGED <<svars, fvars, evars, mvars, kvars>>

\* "Fetch Raw Data": "if results and results.get('companies')"
InspectAfterPoll(companies) ==
    /\ rpc = "poll" /\ run_entry = "inspect" /\ pc = "done"
    /\ EndRun(IF ~Falsy(ret) /\ companies THEN "raw_data" ELSE "could_not_retrieve")
    /\ UNCHANGED <<run_entry, max_retries, idx, successful_domains, failed_domains,
                   enrich_job, start_calls, poll_calls, counted>>
    /\ UNCHANGED <<tvars, pvars, svars, fvars, evars, mvars, kvars>>

\* failed_domains += 1
FailedAfterLost(n) == n
FailedAfter(n) == n + 1

\* single-domain mode: the current item is counted and the loop goes on to the
\* next item (after the sleep of delay_between) or ends
CountItem(as) ==
    /\ successful_domains' = IF as = "ok" THEN successful_domains + 1 ELSE successful_domains
    /\ failed_domains' = IF as = "failed" THEN FailedAfter(failed_domains) ELSE failed_domains
    /\ counted' = Append(counted, [item |-> idx, as |-> as])
    /\ IF idx < Len(companies_payload)
       THEN /\ rpc' = "loop"
            /\ idx' = idx + 1
            /\ UNCHANGED reports
       ELSE /\ EndRun(IF successful_domains' > 0 THEN "complete" ELSE "single_failed")
            /\ UNCHANGED idx

\* single-domain mode: one turn of the loop up to the answer of
\* start_company_enrichment(single_payload)
SingleItem(job, mw, at, kind) ==
    /\ rpc = "loop" /\ run_entry = "single"
    /\ enrich_job' = job
    /\ start_calls' = Append(start_calls, <<companies_payload[idx]>>)
    /\ IF ~Falsy(job) /\ IsDict(job) /\ JobIdOf(job) # "None"
       THEN /\ EnterPoller("single", job, mw, at, kind)
            /\ UNCHANGED <<idx, successful_domains, failed_domains, counted, reports>>
       ELSE /\ CountItem("failed")
            /\ UNCHANGED <<poll_calls, tvars, pvars>>
    /\ UNCHANGED <<run_entry, max_retries>>
    /\ UNCHANGED <<svars, fvars, evars, mvars, kvars>>

\* single-domain mode: "if single_result and single_result.get('companies')"
SingleAfterPoll(companies) ==
    /\ rpc = "poll" /\ run_entry = "single" /\ pc = "done"
    /\ CountItem(IF ~Falsy(ret) /\ companies THEN "ok" ELSE "failed")
    /\ UNCHANGED <<run_entry, max_retries, enrich_job, start_calls, poll_calls>>
    /\ UNCHANGED <<tvars, pvars, svars, fvars, evars, mvars, kvars>>

\* the statuses the enrichment endpoint answers a poll of a run with, and the poll
\* at which the job of a run turns terminal (0: never)
RunPollCodes == {200, 401}
RunTermAts == {0, 1, 2}

RunNext ==
    \/ \E e \in Entries, n \in 1..MaxItems, r \in RetryChoices :
          /\ (e # "single" => r = max_retries)
          /\ (e = "inspect" => n = 1)
          /\ StartRun(e, IF e = "inspect" THEN InspectPayload ELSE RunPayload(n), r)
    \/ \E job \in StartResponses, mw \in MaxWaitChoices, at \in RunTermAts, k \in TermKinds :
          /\ (at = 0 => k = "completed")
          /\ BulkSubmit(job, mw, at, k)
    \/ \E job \in StartResponses, mw \in MaxWaitChoices, at \in RunTermAts, k \in TermKinds :
          /\ (at = 0 => k = "completed")
          /\ InspectSubmit(job, mw, at, k)
    \/ \E job \in StartResponses, mw \in MaxWaitChoices, at \in RunTermAts, k \in TermKinds :
          /\ (at = 0 => k = "completed")
          /\ SingleItem(job, mw, at, k)
    \/ LoopHead /\ UNCHANGED <<svars, xvars>>
    \/ \E code \in RunPollCodes, body \in PollBodies :
          /\ (code # 200 => body = NotJson)
          /\ AttemptResponse(code, NoHeader, body, 0) /\ UNCHANGED <<pvars, svars, xvars>>
    \/ AfterGet /\ UNCHANGED <<svars, xvars>>
    \/ WaitTick /\ UNCHANGED <<svars, xvars>>
    \/ BulkAfterPoll
    \/ \E companies \in BOOLEAN : InspectAfterPoll(companies)
    \/ \E companies \in BOOLEAN : SingleAfterPoll(companies)
    \* the script does not suspend between the poller's return and its handling
    \/ ClearJobState /\ ~(rpc = "poll" /\ pc = "done")

RunSpec == Init /\ [][RunNext]_vars

(***************************************************************************)
(* Properties of a run of the enrichment page.                             *)
(***************************************************************************)
\* the submission returned the failure value or an answer without a job id
SubmissionFailed == enrich_job \notin {EnrichIdJson, IdJson}

\* C23: in a bulk run start_company_enrichment is called once, with the whole
\* payload; when it returns the failure value or an answer without a job id, no
\* call of get_enrichment_results is made, nothing is submitted again and the run
\* ends with one message reporting the failed submission.
C23_SubmitOnceNoPoll ==
    run_entry = "bulk" =>
        /\ Len(start_calls) <= 1
        /\ (rpc \in {"poll", "ended"} => start_calls = <<companies_payload>>)
        /\ (rpc \in {"poll", "ended"} /\ SubmissionFailed)
              => /\ rpc = "ended"
                 /\ poll_calls = 0
                 /\ Len(reports) = 1
                 /\ reports[1] \in {"no_response", "failed_to_start", "exception"}

\* a bulk run ended on an answer that carries no job id
C23_Witness ==
    /\ run_entry = "bulk" /\ rpc = "ended" /\ enrich_job = NoIdJson
    /\ start_calls = <<companies_payload>> /\ Len(companies_payload) = 2
    /\ poll_calls = 0 /\ reports = <<"failed_to_start">>

\* C24: while a bulk run polls, session last_job_id is the id of the job polled,
\* unless the session was reset during the poll, and then the poll does not end as
\* timed out; so a bulk poll that times out has kept the id from its start to its end.
C24_JobIdKeptOnTimeout ==
    (run_entry = "bulk" /\ rpc = "poll") =>
        /\ job_id = JobIdOf(enrich_job)
        /\ \/ last_job_id = job_id
           \/ (signalPhase \in {"wait", "inflight"} /\ outcome # "timeout")

\* a bulk run ended after its poll timed out
C24_Witness ==
    /\ run_entry = "bulk" /\ rpc = "ended" /\ outcome = "timeout"
    /\ reports = <<"failed_to_retrieve">>
    /\ last_job_id = JobId /\ clock - start_time >= max_wait

\* calls of start_company_enrichment made for item i of the payload
AttemptsOf(i) ==
    Cardinality({k \in 1..Len(start_calls) : start_calls[k] = <<companies_payload[i]>>})

\* C26: in single-domain mode with 'Max retries per domain' above 1, a domain counted
\* as failed was submitted more than once.
C26_FailedDomainRetried ==
    (run_entry = "single" /\ max_retries > 1) =>
        \A k \in 1..Len(counted) :
            counted[k].as = "failed" => AttemptsOf(counted[k].item) > 1

\* the items counted as ...
CountedAs(as) == Cardinality({k \in 1..Len(counted) : counted[k].as = as})

C28_OnlyOwnResult ==
    Merged =>
        \A i \in 1..Len(df) : Populated(i) =>
            \E k \in 1..Len(companies_payload) :
                LET item == companies_payload[k] IN
                /\ item.domain = CleanOfRow(i)
                /\ \A key \in selected_keys :
                      df[i][EnrichedColumn(key)] = ExtractedValue(ResultFor(item), key)

\* C30: search_results, next_page_token and total_results_loaded hold data of the
\* latest submit only: a submit (the step that counts searchNo on) that does not
\* end with a first page leaves them empty, one that does leaves exactly that
\* page, and what Load More adds was fetched with the criteria of that submit;
\* total_results_loaded is the length of search_results in every state.
C30_OnlyLatestSearch ==
    /\ []( /\ total_results_loaded = search_results.len
           /\ search_results.searches \subseteq {searchNo}
           /\ (next_page_token # "None" => ResultsShown)
           /\ (ResultsShown => current_search_criteria.search = searchNo) )
    /\ [][ searchNo' # searchNo =>
             IF fetchOutcome' = "ok"
             THEN /\ search_results' = [len |-> pageLen', searches |-> {searchNo'}]
                  /\ total_results_loaded' = pageLen' /\ pageLen' > 0
             ELSE /\ search_results' = NoResults
                  /\ next_page_token' = "None"
                  /\ total_results_loaded' = 0 ]_vars

\* a second submit failed the filter validation: the criteria of the first search
\* are still stored, its results are gone
C30_Witness ==
    /\ searchNo = 2 /\ message = "warn_filters"
    /\ current_search_criteria # NoneVal /\ current_search_criteria.search = 1
    /\ search_results = NoResults /\ next_page_token = "None" /\ total_results_loaded = 0

====
